---------------------------- MODULE Spec2Model ----------------------------
(***************************************************************************)
(* Model of src/lambda_functions/manageDoc/index.js: the Lambda handler    *)
(* that uploads, lists and downloads documents kept in one S3 bucket.      *)
(*                                                                         *)
(* Representation.  JavaScript strings the code splits, lower-cases or     *)
(* concatenates (file names, object keys, base64 text, decimal numbers)    *)
(* are sequences of one-character strings.  Strings the code only compares *)
(* or copies (MIME types, form field values, messages) are TLA+ strings.   *)
(* A Buffer is a sequence of bytes 0..255.  A JavaScript object is a       *)
(* function on its property names; an absent property is a name outside    *)
(* its DOMAIN.  A value that may be null is a sequence of length 0 (null)  *)
(* or 1 (the value).  A content-type header value is the sequence of its   *)
(* lexical tokens.  The multipart body is the sequence of parts busboy     *)
(* reports for it; the multipart grammar itself is busboy's.               *)
(***************************************************************************)
EXTENDS Integers, Sequences, FiniteSets, TLC

VARIABLES
    store,       \* the bucket: object key -> stored object
    now,         \* the value Date.now() returns
    event,       \* the request envelope of the last invocation
    storeFails,  \* whether the store failed the call of the last invocation
    before,      \* the bucket when the last invocation started
    response,    \* what the last invocation returned
    propagated,  \* whether the last invocation ended by throwing
    puts,        \* the PutObject commands the last invocation sent
    decoded,     \* the outcome of extractFileFromForm in the last invocation
    uploaded     \* the uploads answered with 200 so far, in order

vars == <<store, now, event, storeFails, before, response, propagated, puts,
          decoded, uploaded>>

-----------------------------------------------------------------------------
(* Bounds of the model. *)

MaxTime == 2

MaxUploads == 2

MaxParts == 2

-----------------------------------------------------------------------------
(* JavaScript built-ins the code uses. *)

Null == <<>>

Some(v) == <<v>>

RECURSIVE split(_, _)
split(s, sep) ==
    IF \A i \in 1..Len(s) : s[i] # sep
    THEN <<s>>
    ELSE LET i == CHOOSE j \in 1..Len(s) :
                      s[j] = sep /\ \A k \in 1..(j - 1) : s[k] # sep
         IN  <<SubSeq(s, 1, i - 1)>> \o split(SubSeq(s, i + 1, Len(s)), sep)

pop(a) == a[Len(a)]

UpperCase == <<"A", "B", "C", "D", "E", "F", "G", "H", "I", "J", "K", "L", "M",
               "N", "O", "P", "Q", "R", "S", "T", "U", "V", "W", "X", "Y", "Z">>

LowerCase == <<"a", "b", "c", "d", "e", "f", "g", "h", "i", "j", "k", "l", "m",
               "n", "o", "p", "q", "r", "s", "t", "u", "v", "w", "x", "y", "z">>

toLowerCaseChar(c) ==
    IF \E i \in 1..26 : UpperCase[i] = c
    THEN LowerCase[CHOOSE i \in 1..26 : UpperCase[i] = c]
    ELSE c

toLowerCase(s) == [i \in 1..Len(s) |-> toLowerCaseChar(s[i])]

Digits == <<"0", "1", "2", "3", "4", "5", "6", "7", "8", "9">>

RECURSIVE toString(_)
toString(n) ==
    IF n < 10 THEN <<Digits[n + 1]>>
    ELSE toString(n \div 10) \o <<Digits[(n % 10) + 1]>>

RECURSIVE concat(_)
concat(chunks) ==
    IF chunks = <<>> THEN <<>> ELSE Head(chunks) \o concat(Tail(chunks))

includes(list, x) == \E i \in 1..Len(list) : list[i] = x

Base64Alphabet ==
    <<"A", "B", "C", "D", "E", "F", "G", "H", "I", "J", "K", "L", "M",
      "N", "O", "P", "Q", "R", "S", "T", "U", "V", "W", "X", "Y", "Z",
      "a", "b", "c", "d", "e", "f", "g", "h", "i", "j", "k", "l", "m",
      "n", "o", "p", "q", "r", "s", "t", "u", "v", "w", "x", "y", "z",
      "0", "1", "2", "3", "4", "5", "6", "7", "8", "9", "+", "/">>

Base64Char(v) == Base64Alphabet[v + 1]

RECURSIVE toBase64(_)
toBase64(b) ==
    IF Len(b) = 0 THEN <<>>
    ELSE IF Len(b) = 1
    THEN <<Base64Char(b[1] \div 4), Base64Char((b[1] % 4) * 16), "=", "=">>
    ELSE IF Len(b) = 2
    THEN <<Base64Char(b[1] \div 4),
           Base64Char((b[1] % 4) * 16 + b[2] \div 16),
           Base64Char((b[2] % 16) * 4), "=">>
    ELSE <<Base64Char(b[1] \div 4),
           Base64Char((b[1] % 4) * 16 + b[2] \div 16),
           Base64Char((b[2] % 16) * 4 + b[3] \div 64),
           Base64Char(b[3] % 64)>> \o toBase64(SubSeq(b, 4, Len(b)))

NoResponse == [returned |-> FALSE]

Error(msg) == [name |-> "Error", message |-> msg]

TypeError(msg) == [name |-> "TypeError", message |-> msg]

-----------------------------------------------------------------------------
(* Module constants and getCorsHeaders. *)

ALLOWED_EXTENSIONS ==
    << <<".", "d", "o", "c", "x">>, <<".", "p", "d", "f">>,
       <<".", "j", "p", "g">>, <<".", "p", "n", "g">>,
       <<".", "j", "p", "e", "g">>, <<".", "t", "x", "t">>,
       <<".", "x", "l", "s", "x">> >>

getCorsHeaders ==
    ("Access-Control-Allow-Origin" :> "*")
    @@ ("Access-Control-Allow-Methods" :> "GET, POST, PUT, DELETE, OPTIONS")
    @@ ("Access-Control-Allow-Headers" :>
          "Content-Type,X-Amz-Date,Authorization,X-Api-Key,X-Requested-With,Accept")
    @@ ("Access-Control-Allow-Credentials" :> "true")
    @@ ("Access-Control-Max-Age" :> "86400")

DocumentsPrefix == <<"d", "o", "c", "u", "m", "e", "n", "t", "s", "/">>

-----------------------------------------------------------------------------
(* The object store, as the S3 client answers the three commands.  A call  *)
(* made to fail throws a service error and leaves the bucket alone.  S3    *)
(* returns the names of user metadata in lower case.                       *)

EmptyStore == [k \in {} |-> <<>>]

ServiceError == [name |-> "ServiceUnavailable", message |-> "store unavailable"]

NoSuchKey == [name |-> "NoSuchKey", message |-> "The specified key does not exist."]

PutObject(st, cmd, t, fails) ==
    IF fails
    THEN [threw |-> TRUE, error |-> ServiceError, store |-> st]
    ELSE [threw |-> FALSE,
          store |-> (cmd.Key :> [Body |-> cmd.Body,
                                 ContentType |-> cmd.ContentType,
                                 Metadata |->
                                   [documentvaluecode |->
                                        cmd.Metadata.documentValueCode,
                                    documentvaluetypecode |->
                                        cmd.Metadata.documentValueTypeCode],
                                 LastModified |-> t]) @@ st]

GetObject(st, key, fails) ==
    IF fails THEN [threw |-> TRUE, error |-> ServiceError]
    ELSE IF key \notin DOMAIN st THEN [threw |-> TRUE, error |-> NoSuchKey]
    ELSE [threw |-> FALSE, ContentType |-> st[key].ContentType,
          Metadata |-> st[key].Metadata, Body |-> st[key].Body]

HasPrefix(key, prefix) ==
    Len(key) >= Len(prefix) /\ SubSeq(key, 1, Len(prefix)) = prefix

SetToSeq(S) ==
    CHOOSE s \in [1..Cardinality(S) -> S] : \A x \in S : \E i \in DOMAIN s : s[i] = x

descriptor(st, key) ==
    [Key |-> key, Size |-> Len(st[key].Body),
     LastModified |-> st[key].LastModified]

contents(st, order) ==
    IF order = <<>>
    THEN [threw |-> FALSE, Contents |-> Null]
    ELSE [threw |-> FALSE,
          Contents |-> Some([i \in 1..Len(order) |-> descriptor(st, order[i])])]

ListObjectsV2(st, prefix, fails) ==
    IF fails THEN [threw |-> TRUE, error |-> ServiceError]
    ELSE contents(st, SetToSeq({k \in DOMAIN st : HasPrefix(k, prefix)}))

-----------------------------------------------------------------------------
(* extractFileFromForm: the callbacks registered on busboy, and the promise *)
(* they settle.  busboy delivers the parts in body order: for a file part   *)
(* the 'file' event, its 'data' chunks, then the stream's 'end'; for a text *)
(* part the 'field' event; 'finish' after the last part has ended.          *)

NewBusboy ==
    [fileData |-> Null, fileName |-> <<>>, fileType |-> "",
     formFields |-> [documentValueCode |-> "", documentValueTypeCode |-> ""]]

onFile(bb, part) ==
    [bb EXCEPT !.fileName = part.filename, !.fileType = part.mimetype]

onFileEnd(bb, chunks) == [bb EXCEPT !.fileData = Some(concat(chunks))]

onField(bb, part) ==
    IF part.fieldname = "documentValueCode"
    THEN [bb EXCEPT !.formFields.documentValueCode = part.val]
    ELSE IF part.fieldname = "documentValueTypeCode"
    THEN [bb EXCEPT !.formFields.documentValueTypeCode = part.val]
    ELSE bb

onFinishMissesEmptyFile(bb) ==
    IF bb.fileData = Null \/ bb.fileData = Some(<<>>)
    THEN [rejected |-> TRUE, error |-> Error("No file found in form data")]
    ELSE [rejected |-> FALSE,
          fileData |-> bb.fileData[1],
          fileName |-> bb.fileName,
          fileType |-> bb.fileType,
          documentValueCode |-> bb.formFields.documentValueCode,
          documentValueTypeCode |-> bb.formFields.documentValueTypeCode]

onFinish(bb) ==
    IF bb.fileData = Null
    THEN [rejected |-> TRUE, error |-> Error("No file found in form data")]
    ELSE [rejected |-> FALSE,
          fileData |-> bb.fileData[1],
          fileName |-> bb.fileName,
          fileType |-> bb.fileType,
          documentValueCode |-> bb.formFields.documentValueCode,
          documentValueTypeCode |-> bb.formFields.documentValueTypeCode]

onPartKeepsFirstFile(bb, part) ==
    IF part.kind = "file"
    THEN IF bb.fileData = Null
         THEN onFileEnd(onFile(bb, part), part.chunks)
         ELSE bb
    ELSE onField(bb, part)

onPart(bb, part) ==
    IF part.kind = "file"
    THEN onFileEnd(onFile(bb, part), part.chunks)
    ELSE onField(bb, part)

RECURSIVE write(_, _)
write(bb, parts) ==
    IF parts = <<>> THEN bb ELSE write(onPart(bb, Head(parts)), Tail(parts))

headerValue(headers, name) ==
    IF name \in DOMAIN headers THEN headers[name] ELSE <<>>

extractFileFromForm(ev) ==
    IF "headers" \notin DOMAIN ev
    THEN [rejected |-> TRUE,
          error |-> TypeError("Cannot read properties of undefined")]
    ELSE
    LET contentType ==
            IF headerValue(ev.headers, "content-type") # <<>>
            THEN headerValue(ev.headers, "content-type")
            ELSE headerValue(ev.headers, "Content-Type")
    IN  IF contentType = <<>> \/ ~includes(contentType, "multipart/form-data")
        THEN [rejected |-> TRUE,
              error |-> Error("Not a multipart/form-data request")]
        ELSE IF contentType[1] # "multipart/form-data"
        THEN [rejected |-> TRUE, error |-> Error("Unsupported content type")]
        ELSE IF "body" \notin DOMAIN ev
        THEN [rejected |-> TRUE,
              error |-> TypeError("The first argument must be of type string")]
        ELSE onFinish(write(NewBusboy, ev.body))

-----------------------------------------------------------------------------
(* uploadFile *)

resolveContentTypeWithoutJpeg(fileExtension, fileType) ==
    LET ext == toLowerCase(fileExtension)
    IN  IF ext = <<".", "p", "d", "f">> THEN "application/pdf"
        ELSE IF ext = <<".", "d", "o", "c", "x">>
        THEN "application/vnd.openxmlformats-officedocument.wordprocessingml.document"
        ELSE IF ext = <<".", "x", "l", "s", "x">>
        THEN "application/vnd.openxmlformats-officedocument.spreadsheetml.sheet"
        ELSE IF ext = <<".", "t", "x", "t">> THEN "text/plain"
        ELSE IF ext = <<".", "j", "p", "g">> THEN "image/jpeg"
        ELSE IF ext = <<".", "p", "n", "g">> THEN "image/png"
        ELSE fileType

resolveContentType(fileExtension, fileType) ==
    LET ext == toLowerCase(fileExtension)
    IN  IF ext = <<".", "p", "d", "f">> THEN "application/pdf"
        ELSE IF ext = <<".", "d", "o", "c", "x">>
        THEN "application/vnd.openxmlformats-officedocument.wordprocessingml.document"
        ELSE IF ext = <<".", "x", "l", "s", "x">>
        THEN "application/vnd.openxmlformats-officedocument.spreadsheetml.sheet"
        ELSE IF ext = <<".", "t", "x", "t">> THEN "text/plain"
        ELSE IF ext = <<".", "j", "p", "g">> \/ ext = <<".", "j", "p", "e", "g">>
        THEN "image/jpeg"
        ELSE IF ext = <<".", "p", "n", "g">> THEN "image/png"
        ELSE fileType

orNA(v) == IF v = "" THEN "NA" ELSE v

uploadFailed(headers, st, sent, dec, error) ==
    [threw |-> FALSE,
     response |-> [statusCode |-> 500, headers |-> headers,
                   body |-> [error |-> "Failed to upload file",
                             details |-> error.message]],
     store |-> st, puts |-> sent, decoded |-> dec]

uploadSucceeded(headers, st, sent, form, key) ==
    [threw |-> FALSE,
     response |-> [statusCode |-> 200, headers |-> headers,
                   body |-> [message |-> "File uploaded successfully",
                             key |-> key,
                             fileName |-> form.fileName,
                             documentValueCode |-> form.documentValueCode,
                             documentValueTypeCode |->
                                 form.documentValueTypeCode]],
     store |-> st, puts |-> sent, decoded |-> Some(form)]

invalidFileType(headers, st, form) ==
    [threw |-> FALSE,
     response |-> [statusCode |-> 400, headers |-> headers,
                   body |-> [error |-> "Invalid file type"]],
     store |-> st, puts |-> <<>>, decoded |-> Some(form)]

uploadParams(form, fileExtension, t) ==
    [Key |-> DocumentsPrefix \o toString(t) \o <<"-">> \o form.fileName,
     Body |-> form.fileData,
     ContentType |-> resolveContentType(fileExtension, form.fileType),
     Metadata |-> [documentValueCode |-> orNA(form.documentValueCode),
                   documentValueTypeCode |-> orNA(form.documentValueTypeCode)]]

afterPutIgnoresFailure(form, command, sent, headers, st) ==
    uploadSucceeded(headers, sent.store, <<command>>, form, command.Key)

afterPut(form, command, sent, headers, st) ==
    IF sent.threw
    THEN uploadFailed(headers, st, <<command>>, Some(form), sent.error)
    ELSE uploadSucceeded(headers, sent.store, <<command>>, form, command.Key)

send(form, command, headers, st, t, fails) ==
    afterPut(form, command, PutObject(st, command, t, fails), headers, st)

validateAndSend(form, fileExtension, headers, st, t, fails) ==
    IF ~includes(ALLOWED_EXTENSIONS, fileExtension)
    THEN invalidFileType(headers, st, form)
    ELSE send(form, uploadParams(form, fileExtension, t), headers, st, t, fails)

uploadForm(form, headers, st, t, fails) ==
    IF form.rejected
    THEN uploadFailed(headers, st, <<>>, Some(form), form.error)
    ELSE validateAndSend(form,
                         <<".">> \o toLowerCase(pop(split(form.fileName, "."))),
                         headers, st, t, fails)

uploadFile(ev, headers, st, t, fails) ==
    uploadForm(extractFileFromForm(ev), headers, st, t, fails)

-----------------------------------------------------------------------------
(* listDocuments: no try/catch of its own, a failed list call is thrown on. *)

document(item) ==
    [key |-> item.Key,
     fileName |-> pop(split(item.Key, "/")),
     size |-> item.Size,
     lastModified |-> item.LastModified]

map(items, F(_)) == [i \in 1..Len(items) |-> F(items[i])]

listed(answer, headers, st) ==
    IF answer.threw
    THEN [threw |-> TRUE, error |-> answer.error, response |-> NoResponse,
          store |-> st, puts |-> <<>>, decoded |-> Null]
    ELSE [threw |-> FALSE,
          response |->
            [statusCode |-> 200, headers |-> headers,
             body |-> [documents |->
                         IF answer.Contents # Null
                         THEN map(answer.Contents[1], document)
                         ELSE <<>>]],
          store |-> st, puts |-> <<>>, decoded |-> Null]

listDocuments(headers, st, fails) ==
    listed(ListObjectsV2(st, DocumentsPrefix, fails), headers, st)

-----------------------------------------------------------------------------
(* downloadFile *)

queryParameter(ev, name) ==
    IF "queryStringParameters" \in DOMAIN ev
       /\ name \in DOMAIN ev.queryStringParameters
    THEN Some(ev.queryStringParameters[name])
    ELSE Null

keyRequired(headers, st) ==
    [threw |-> FALSE,
     response |-> [statusCode |-> 400, headers |-> headers,
                   body |-> [error |-> "Document key is required"]],
     store |-> st, puts |-> <<>>, decoded |-> Null]

downloadFailed(headers, st, error) ==
    [threw |-> FALSE,
     response |-> [statusCode |-> 500, headers |-> headers,
                   body |-> [error |-> "Failed to download file",
                             details |-> error.message]],
     store |-> st, puts |-> <<>>, decoded |-> Null]

jsonEnvelope(headers, st, fileName, got, fileContent) ==
    [threw |-> FALSE,
     response |->
       [statusCode |-> 200,
        headers |-> ("Content-Type" :> "application/json") @@ headers,
        body |-> [fileName |-> fileName,
                  contentType |-> got.ContentType,
                  fileContent |-> fileContent,
                  isBase64Encoded |-> TRUE,
                  metadata |-> got.Metadata]],
     store |-> st, puts |-> <<>>, decoded |-> Null]

attachment(headers, st, fileName, got, fileContent) ==
    [threw |-> FALSE,
     response |->
       [statusCode |-> 200,
        headers |->
          ("Content-Type" :> got.ContentType)
          @@ ("Content-Disposition" :>
                [disposition |-> "attachment", filename |-> fileName])
          @@ ("Content-Length" :> toString(Len(got.Body)))
          @@ ("X-Document-Value-Code" :> orNA(got.Metadata.documentvaluecode))
          @@ ("X-Document-Value-Type-Code" :>
                orNA(got.Metadata.documentvaluetypecode))
          @@ headers,
        body |-> [base64 |-> fileContent],
        isBase64Encoded |-> TRUE],
     store |-> st, puts |-> <<>>, decoded |-> Null]

afterGetWithout404(headers, st, key, got) ==
    IF got.threw THEN downloadFailed(headers, st, got.error)
    ELSE IF got.ContentType = "text/plain"
    THEN jsonEnvelope(headers, st, pop(split(key, "/")), got, toBase64(got.Body))
    ELSE attachment(headers, st, pop(split(key, "/")), got, toBase64(got.Body))

afterGet(headers, st, key, got) ==
    IF got.threw /\ got.error.name = "NoSuchKey"
    THEN [threw |-> FALSE,
          response |-> [statusCode |-> 404, headers |-> headers,
                        body |-> [error |-> "Document not found"]],
          store |-> st, puts |-> <<>>, decoded |-> Null]
    ELSE IF got.threw THEN downloadFailed(headers, st, got.error)
    ELSE IF got.ContentType = "text/plain"
    THEN jsonEnvelope(headers, st, pop(split(key, "/")), got, toBase64(got.Body))
    ELSE attachment(headers, st, pop(split(key, "/")), got, toBase64(got.Body))

download(key, headers, st, fails) ==
    IF key = Null \/ key = Some(<<>>)
    THEN keyRequired(headers, st)
    ELSE afterGet(headers, st, key[1], GetObject(st, key[1], fails))

downloadFile(ev, headers, st, fails) ==
    download(queryParameter(ev, "key"), headers, st, fails)

-----------------------------------------------------------------------------
(* exports.handler *)

dispatch(action, ev, headers, st, t, fails) ==
    IF action = Some("uploadFile") THEN uploadFile(ev, headers, st, t, fails)
    ELSE IF action = Some("listDocuments") THEN listDocuments(headers, st, fails)
    ELSE IF action = Some("downloadFile") THEN downloadFile(ev, headers, st, fails)
    ELSE [threw |-> FALSE,
          response |-> [statusCode |-> 400, headers |-> headers,
                        body |-> [error |-> "Invalid action specified"]],
          store |-> st, puts |-> <<>>, decoded |-> Null]

route(ev, headers, st, t, fails) ==
    IF "headers" \notin DOMAIN ev
    THEN [threw |-> TRUE,
          error |-> TypeError("Cannot read properties of undefined"),
          response |-> NoResponse, store |-> st, puts |-> <<>>, decoded |-> Null]
    ELSE IF ev.httpMethod = "OPTIONS"
    THEN [threw |-> FALSE,
          response |-> [statusCode |-> 200, headers |-> headers,
                        body |-> [message |-> "Preflight request successful"]],
          store |-> st, puts |-> <<>>, decoded |-> Null]
    ELSE dispatch(queryParameter(ev, "action"), ev, headers, st, t, fails)

catchAllRethrows(flow) == flow

catchAll(flow) ==
    IF flow.threw
    THEN [threw |-> FALSE,
          response |-> [statusCode |-> 500, headers |-> getCorsHeaders,
                        body |-> [error |-> "Internal server error",
                                  details |-> flow.error.message]],
          store |-> flow.store, puts |-> flow.puts, decoded |-> flow.decoded]
    ELSE flow

handler(ev, st, t, fails) == catchAll(route(ev, getCorsHeaders, st, t, fails))

-----------------------------------------------------------------------------
(* Request envelopes. *)

NoEvent == [invoked |-> FALSE]

NoHeaders == [name \in {} |-> <<>>]

FilePart(filename, mimetype, chunks) ==
    [kind |-> "file", fieldname |-> "file", filename |-> filename,
     mimetype |-> mimetype, chunks |-> chunks]

FieldPart(fieldname, val) ==
    [kind |-> "field", fieldname |-> fieldname, val |-> val]

SeqsUpTo(S, n) == UNION {[1..m -> S] : m \in 0..n}

Multipart == <<"multipart/form-data", "; boundary=X">>

UploadEvent(headers, parts) ==
    [httpMethod |-> "POST",
     queryStringParameters |-> [action |-> "uploadFile"],
     headers |-> headers, body |-> parts, isBase64Encoded |-> TRUE]

ListEvent ==
    [httpMethod |-> "GET",
     queryStringParameters |-> [action |-> "listDocuments"],
     headers |-> NoHeaders]

DownloadEvent(key) ==
    [httpMethod |-> "GET",
     queryStringParameters |-> [action |-> "downloadFile", key |-> key],
     headers |-> NoHeaders]

OtherEvents ==
    { [httpMethod |-> "OPTIONS", headers |-> NoHeaders],
      [httpMethod |-> "GET", headers |-> NoHeaders],
      [httpMethod |-> "GET", headers |-> NoHeaders,
       queryStringParameters |-> [action |-> "deleteFile"]],
      [httpMethod |-> "GET", headers |-> NoHeaders,
       queryStringParameters |-> [action |-> "downloadFile"]],
      [httpMethod |-> "GET",
       queryStringParameters |-> [action |-> "listDocuments"]],
      [httpMethod |-> "POST", headers |-> ("content-type" :> Multipart),
       queryStringParameters |-> [action |-> "uploadFile"]] }

\* Parts of the uploads that fill the bucket: a text file in two sizes, a
\* binary file, a file of an extension that is not allowed, two fields.
StoreParts ==
    { FilePart(<<"a", ".", "t", "x", "t">>, "application/octet-stream",
               << <<72, 105>> >>),
      FilePart(<<"a", ".", "t", "x", "t">>, "text/plain",
               << <<0, 16, 131>>, <<255>> >>),
      FilePart(<<"b", ".", "p", "d", "f">>, "application/pdf", << <<37>> >>),
      FilePart(<<"c", ".", "e", "x", "e">>, "application/octet-stream",
               << <<77, 90>> >>),
      FieldPart("documentValueCode", "INV001"),
      FieldPart("documentValueTypeCode", "") }

StoreUploadEvents ==
    {UploadEvent(("content-type" :> Multipart), parts) :
        parts \in SeqsUpTo(StoreParts, MaxParts)}

MissingKey == DocumentsPrefix \o <<"9", "-", "x", ".", "p", "d", "f">>

DownloadKeys(st) == DOMAIN st \cup {MissingKey, <<>>}

\* File names of single uploads: every allowed extension, letter cases,
\* names without a dot, extensions that are not allowed, a path in the name.
FileNames ==
    { <<"a", ".", "p", "d", "f">>, <<"A", ".", "P", "D", "F">>,
      <<"a", ".", "d", "o", "c", "x">>, <<"a", ".", "x", "l", "s", "x">>,
      <<"a", ".", "t", "x", "t">>, <<"a", ".", "j", "p", "g">>,
      <<"a", ".", "j", "p", "e", "g">>, <<"a", ".", "J", "p", "E", "g">>,
      <<"a", ".", "p", "n", "g">>, <<"v", "1", ".", "2", ".", "p", "n", "g">>,
      <<"d", "/", "a", ".", "p", "n", "g">>,
      <<"p", "d", "f">>, <<"T", "X", "T">>, <<"a">>, <<"a", ".">>,
      <<"a", ".", "e", "x", "e">>, <<"a", ".", "p", "d", "f", ".", "j", "s">> }

DeclaredTypes == {"application/octet-stream", "image/png"}

FormParts ==
    {FilePart(n, t, << <<77>> >>) : n \in FileNames, t \in DeclaredTypes}
    \cup { FilePart(<<"e", ".", "t", "x", "t">>, "text/plain", <<>>),
           FilePart(<<"z", ".", "p", "n", "g">>, "image/x-png",
                    << <<1, 2>>, <<3>> >>),
           FieldPart("documentValueCode", "INV001"),
           FieldPart("documentValueTypeCode", "T1"),
           FieldPart("documentValueCode", ""),
           FieldPart("comment", "hello") }

FormHeaders ==
    { ("content-type" :> Multipart),
      ("Content-Type" :> Multipart),
      ("content-type" :> <<"application/json">>),
      ("content-type" :> <<"text/plain; note=", "multipart/form-data">>),
      ("accept" :> <<"*/*">>) }

FormUploadEvents ==
    {UploadEvent(h, parts) :
        h \in FormHeaders, parts \in SeqsUpTo(FormParts, MaxParts)}

-----------------------------------------------------------------------------
(* The state machine: one action per kind of invocation, each the whole    *)
(* handler; Tick is the clock behind Date.now().                           *)

Init ==
    /\ store = EmptyStore
    /\ now = 1
    /\ event = NoEvent
    /\ storeFails = FALSE
    /\ before = EmptyStore
    /\ response = NoResponse
    /\ propagated = FALSE
    /\ puts = <<>>
    /\ decoded = Null
    /\ uploaded = <<>>

Record(ev, fails, r) ==
    /\ event' = ev
    /\ storeFails' = fails
    /\ before' = store
    /\ store' = r.store
    /\ response' = r.response
    /\ propagated' = r.threw
    /\ puts' = r.puts
    /\ decoded' = r.decoded
    /\ uploaded' =
         IF ~r.threw /\ r.response.statusCode = 200
            /\ queryParameter(ev, "action") = Some("uploadFile")
         THEN Append(uploaded,
                     [key |-> r.response.body.key,
                      fileData |-> r.decoded[1].fileData,
                      documentValueCode |-> r.decoded[1].documentValueCode,
                      documentValueTypeCode |->
                          r.decoded[1].documentValueTypeCode])
         ELSE uploaded
    /\ now' = now

Invoke(ev, fails) == Record(ev, fails, handler(ev, store, now, fails))

Tick ==
    /\ now < MaxTime
    /\ now' = now + 1
    /\ UNCHANGED <<store, event, storeFails, before, response, propagated,
                   puts, decoded, uploaded>>

Upload ==
    /\ Len(uploaded) < MaxUploads
    /\ \E ev \in StoreUploadEvents, fails \in BOOLEAN : Invoke(ev, fails)

List ==
    /\ now <= MaxTime
    /\ \E fails \in BOOLEAN : Invoke(ListEvent, fails)

Download ==
    /\ now <= MaxTime
    /\ \E key \in DownloadKeys(store), fails \in BOOLEAN :
          Invoke(DownloadEvent(key), fails)

Other ==
    /\ now <= MaxTime
    /\ \E ev \in OtherEvents : Invoke(ev, FALSE)

Next == Tick \/ Upload \/ List \/ Download \/ Other

Spec == Init /\ [][Next]_vars

\* One upload into the empty bucket, over every form and header.
UploadForm ==
    /\ event = NoEvent
    /\ \E ev \in FormUploadEvents, fails \in BOOLEAN : Invoke(ev, fails)

NextForm == UploadForm

FormSpec == Init /\ [][NextForm]_vars

-----------------------------------------------------------------------------
(* Vocabulary of the properties, defined apart from the code's operators.  *)

Invoked(action) ==
    /\ "httpMethod" \in DOMAIN event
    /\ "headers" \in DOMAIN event
    /\ event.httpMethod # "OPTIONS"
    /\ queryParameter(event, "action") = Some(action)

Returned(status) ==
    "statusCode" \in DOMAIN response /\ response.statusCode = status

\* The part of s after its last c; all of s when c does not occur in it.
AfterLast(s, c) ==
    IF \E i \in 1..Len(s) : s[i] = c
    THEN LET last == CHOOSE i \in 1..Len(s) :
                         s[i] = c /\ \A j \in (i + 1)..Len(s) : s[j] # c
         IN  SubSeq(s, last + 1, Len(s))
    ELSE s

HasDot(name) == \E i \in 1..Len(name) : name[i] = "."

SupportedTypes ==
    { <<"d", "o", "c", "x">>, <<"p", "d", "f">>, <<"j", "p", "g">>,
      <<"p", "n", "g">>, <<"j", "p", "e", "g">>, <<"t", "x", "t">>,
      <<"x", "l", "s", "x">> }

CanonicalMime(ext) ==
    CASE ext = <<"p", "d", "f">> -> "application/pdf"
      [] ext = <<"d", "o", "c", "x">> ->
           "application/vnd.openxmlformats-officedocument.wordprocessingml.document"
      [] ext = <<"x", "l", "s", "x">> ->
           "application/vnd.openxmlformats-officedocument.spreadsheetml.sheet"
      [] ext = <<"t", "x", "t">> -> "text/plain"
      [] ext = <<"j", "p", "g">> -> "image/jpeg"
      [] ext = <<"j", "p", "e", "g">> -> "image/jpeg"
      [] ext = <<"p", "n", "g">> -> "image/png"
      [] OTHER -> "no canonical type"

CanonicalMimes ==
    { "application/pdf",
      "application/vnd.openxmlformats-officedocument.wordprocessingml.document",
      "application/vnd.openxmlformats-officedocument.spreadsheetml.sheet",
      "text/plain", "image/jpeg", "image/png" }

Base64Value(c) == CHOOSE v \in 0..63 : Base64Alphabet[v + 1] = c

RECURSIVE fromBase64(_)
fromBase64(s) ==
    IF s = <<>> THEN <<>>
    ELSE LET a == Base64Value(s[1])
             b == Base64Value(s[2])
         IN  IF s[3] = "=" THEN <<a * 4 + b \div 16>>
             ELSE IF s[4] = "="
             THEN <<a * 4 + b \div 16,
                    (b % 16) * 16 + Base64Value(s[3]) \div 4>>
             ELSE <<a * 4 + b \div 16,
                    (b % 16) * 16 + Base64Value(s[3]) \div 4,
                    (Base64Value(s[3]) % 4) * 64 + Base64Value(s[4])>>
                  \o fromBase64(SubSeq(s, 5, Len(s)))

\* What a 200 download carries, in either of its two shapes.
DownloadedContent ==
    IF "fileContent" \in DOMAIN response.body
    THEN response.body.fileContent
    ELSE response.body.base64

DownloadedValueCode ==
    IF "metadata" \in DOMAIN response.body
    THEN response.body.metadata.documentvaluecode
    ELSE response.headers["X-Document-Value-Code"]

DownloadedValueTypeCode ==
    IF "metadata" \in DOMAIN response.body
    THEN response.body.metadata.documentvaluetypecode
    ELSE response.headers["X-Document-Value-Type-Code"]

SuppliedOrNA(v) == IF v = "" THEN "NA" ELSE v

RoundTrips(upload) ==
    /\ Returned(200)
    /\ fromBase64(DownloadedContent) = upload.fileData
    /\ DownloadedValueCode = SuppliedOrNA(upload.documentValueCode)
    /\ DownloadedValueTypeCode = SuppliedOrNA(upload.documentValueTypeCode)

RequestedKey == queryParameter(event, "key")

DownloadOf(key) ==
    /\ Invoked("downloadFile")
    /\ RequestedKey = Some(key)
    /\ ~storeFails

\* The request carries a content-type header that declares multipart/form-data.
DeclaresMultipart ==
    \E name \in {"content-type", "Content-Type"} :
        /\ name \in DOMAIN event.headers
        /\ event.headers[name] # <<>>
        /\ event.headers[name][1] = "multipart/form-data"

FileParts == SelectSeq(event.body, LAMBDA part : part.kind = "file")

Decoded == decoded # Null /\ ~decoded[1].rejected

-----------------------------------------------------------------------------
(* C1.  Round trip: a download of the key a 200 upload returned, whatever   *)
(* was invoked in between, returns 200 with the bytes and the two metadata  *)
(* values of that upload ("NA" for a value left out or empty).  The store   *)
(* answering the download is taken to work.                                 *)

C1_RoundTrip ==
    \A i \in 1..Len(uploaded) :
        DownloadOf(uploaded[i].key) => RoundTrips(uploaded[i])

\* The round trip does hold for an upload whose key no later upload reused.
C1_RoundTripOfLastWriter ==
    \A i \in 1..Len(uploaded) :
        (/\ DownloadOf(uploaded[i].key)
         /\ \A j \in (i + 1)..Len(uploaded) : uploaded[j].key # uploaded[i].key)
        => RoundTrips(uploaded[i])

(* C2.  From the empty store, after N uploads answered 200 a listing has    *)
(* exactly N entries, and each entry's fileName is the last '/'-separated   *)
(* segment of its key.                                                      *)

C2_ListCountsUploads ==
    (Invoked("listDocuments") /\ Returned(200)) =>
        /\ Len(response.body.documents) = Len(uploaded)
        /\ \A i \in 1..Len(response.body.documents) :
               response.body.documents[i].fileName
                   = AfterLast(response.body.documents[i].key, "/")

(* C3.  An upload sends at most one put and never again; it answers 200     *)
(* exactly when that put was sent and succeeded, and then the store is the  *)
(* store before with the one object under the returned key; on 400 and 500  *)
(* the store is the store before.                                           *)

C3_UploadAllOrNothing ==
    Invoked("uploadFile") =>
        /\ Len(puts) <= 1
        /\ response.statusCode \in {200, 400, 500}
        /\ Returned(200) <=> (Len(puts) = 1 /\ ~storeFails)
        /\ Returned(200) =>
             /\ puts[1].Key = response.body.key
             /\ DOMAIN store = DOMAIN before \cup {response.body.key}
             /\ \A k \in DOMAIN before :
                    k # response.body.key => store[k] = before[k]
             /\ store[response.body.key].Body = decoded[1].fileData
             /\ store[response.body.key].ContentType = puts[1].ContentType
        /\ ~Returned(200) => store = before

C3_PutFailedAfterAnUpload ==
    /\ Invoked("uploadFile")
    /\ Returned(500)
    /\ Len(puts) = 1
    /\ storeFails
    /\ Len(uploaded) >= 1
    /\ store = before

(* C4.  An upload whose content-type header is missing or does not declare  *)
(* multipart/form-data is answered 400, and nothing is put.                 *)

C4_MalformedRequestIs400 ==
    (Invoked("uploadFile") /\ ~DeclaresMultipart) =>
        /\ Returned(400)
        /\ puts = <<>>
        /\ store = before

(* C5.  A decoded upload whose file name has no extension among the seven   *)
(* supported ones (the part after the last '.', in any letter case; none    *)
(* when the name has no '.') is answered 400 and nothing is put.            *)

C5_UnsupportedExtensionIs400 ==
    (/\ Invoked("uploadFile")
     /\ Decoded
     /\ \/ ~HasDot(decoded[1].fileName)
        \/ toLowerCase(AfterLast(decoded[1].fileName, ".")) \notin SupportedTypes)
    => (Returned(400) /\ puts = <<>>)

(* C6.  Every put carries the canonical MIME type of the file name's        *)
(* lower-cased extension, which is one of the six canonical types, whatever *)
(* type the client declared.                                                *)

C6_StoredTypeIsCanonical ==
    \A i \in 1..Len(puts) :
        /\ puts[i].ContentType
             = CanonicalMime(toLowerCase(AfterLast(decoded[1].fileName, ".")))
        /\ puts[i].ContentType \in CanonicalMimes

C6_DeclaredTypeOverridden ==
    /\ Invoked("uploadFile")
    /\ Returned(200)
    /\ decoded[1].fileName = <<"a", ".", "J", "p", "E", "g">>
    /\ decoded[1].fileType = "image/png"
    /\ store[response.body.key].ContentType = "image/jpeg"

(* C7.  As claimed: the decoder succeeds only with a payload that is not    *)
(* empty; a body with no file part, and one whose file part has no bytes,   *)
(* fail to decode, the upload fails and nothing is put.                     *)

C7_DecodeNeedsPayload ==
    (Invoked("uploadFile") /\ DeclaresMultipart /\ "body" \in DOMAIN event) =>
        /\ Decoded => decoded[1].fileData # <<>>
        /\ ~Decoded =>
             /\ decoded[1].error.message = "No file found in form data"
             /\ response.statusCode \in {400, 500}
             /\ puts = <<>>

(* C7, amended.  The decoder fails with 'No file found in form data'        *)
(* exactly when the body has no file part, and then the upload is answered  *)
(* 500 and nothing is put; a file part without bytes decodes to an empty    *)
(* payload.                                                                 *)

C7_DecodeNeedsFilePart ==
    (Invoked("uploadFile") /\ DeclaresMultipart /\ "body" \in DOMAIN event) =>
        /\ Decoded <=> FileParts # <<>>
        /\ ~Decoded =>
             /\ decoded[1].error.message = "No file found in form data"
             /\ Returned(500)
             /\ puts = <<>>
             /\ store = before
        /\ Decoded =>
             decoded[1].fileData = concat(FileParts[Len(FileParts)].chunks)

C7_EmptyFileDecoded ==
    /\ Invoked("uploadFile")
    /\ Decoded
    /\ FileParts[Len(FileParts)].chunks = <<>>
    /\ decoded[1].fileData = <<>>
    /\ Returned(200)
    /\ store[response.body.key].Body = <<>>

(* C8.  A download of a key the store does not hold is answered 404         *)
(* 'Document not found' (the store answering), and a download never         *)
(* changes the store, whatever it answers.                                  *)

C8_DownloadReadsOnly ==
    Invoked("downloadFile") =>
        /\ store = before
        /\ puts = <<>>
        /\ response.statusCode \in {200, 400, 404, 500}
        /\ (/\ RequestedKey # Null
            /\ RequestedKey[1] # <<>>
            /\ RequestedKey[1] \notin DOMAIN before
            /\ ~storeFails)
           => (Returned(404) /\ response.body.error = "Document not found")

C8_MissingKeyIs404 ==
    /\ Invoked("downloadFile")
    /\ RequestedKey = Some(MissingKey)
    /\ before # EmptyStore
    /\ Returned(404)

(* C9.  As claimed: of several file parts the decoder keeps the first, its  *)
(* name, its type and its bytes.                                            *)

C9_KeepsFirstFilePart ==
    (Invoked("uploadFile") /\ Decoded) =>
        /\ decoded[1].fileName = FileParts[1].filename
        /\ decoded[1].fileType = FileParts[1].mimetype
        /\ decoded[1].fileData = concat(FileParts[1].chunks)

(* C9, amended.  Of several file parts the decoder keeps the last: the      *)
(* name, the type and the bytes it returns are all those of the last file   *)
(* part, so the three always belong to one part.                            *)

C9_KeepsLastFilePart ==
    (Invoked("uploadFile") /\ Decoded) =>
        /\ decoded[1].fileName = FileParts[Len(FileParts)].filename
        /\ decoded[1].fileType = FileParts[Len(FileParts)].mimetype
        /\ decoded[1].fileData = concat(FileParts[Len(FileParts)].chunks)

C9_TwoDifferentFileParts ==
    /\ Invoked("uploadFile")
    /\ Decoded
    /\ Len(FileParts) = 2
    /\ FileParts[1].filename # FileParts[2].filename
    /\ FileParts[1].mimetype # FileParts[2].mimetype
    /\ FileParts[1].chunks # FileParts[2].chunks
    /\ decoded[1].fileName = FileParts[2].filename

(* C10.  Every invocation returns a response with the CORS headers and      *)
(* throws nothing; a failure no flow catches (a failed list call, a request *)
(* without headers) becomes a 500 whose body carries the failure's message; *)
(* a failed put or get becomes a 500 of its flow.                           *)

C10_HandlerCatchesAll ==
    "httpMethod" \in DOMAIN event =>
        /\ ~propagated
        /\ "statusCode" \in DOMAIN response
        /\ \A h \in DOMAIN getCorsHeaders :
               h \in DOMAIN response.headers
               /\ response.headers[h] = getCorsHeaders[h]
        /\ (Invoked("listDocuments") /\ storeFails) =>
               /\ Returned(500)
               /\ response.body.error = "Internal server error"
               /\ response.body.details = ServiceError.message
        /\ "headers" \notin DOMAIN event =>
               /\ Returned(500)
               /\ response.body.details = "Cannot read properties of undefined"
        /\ (/\ storeFails
            /\ \/ puts # <<>>
               \/ /\ Invoked("downloadFile")
                  /\ RequestedKey # Null
                  /\ RequestedKey[1] # <<>>) =>
               /\ Returned(500)
               /\ response.body.details = ServiceError.message

C10_ListFailureAnswered ==
    /\ Invoked("listDocuments")
    /\ storeFails
    /\ store # EmptyStore
    /\ Returned(500)

=============================================================================
